---- MODULE Spec2Model ----
(***************************************************************************)
(* Model of the Jenkins build-box auto-scaler (src/main.go): the poll loop *)
(* of main, the scale-up scan (startBuildBoxes), the scale-down fan-out    *)
(* (stopBuildBoxes), the per-node goroutines startBuildBoxAsync and        *)
(* stopBuildBoxAsync, launchNodeAgent with its retry goroutine, its two    *)
(* channels and its timer, and the two collaborators the program talks to: *)
(* the CI master (node info, toggleOffline, launchSlaveAgent, queue) and   *)
(* the compute plane (Instances.Get / Start / Stop).                       *)
(*                                                                         *)
(* One action is one blocking call of the code together with the branch    *)
(* the code takes on its result.  The collaborators are nondeterministic:  *)
(* every call may succeed, fail, or (for JSON reads) return undecodable    *)
(* data, and the CI master assigns and finishes jobs on its own.           *)
(*                                                                         *)
(* Collaborators: the CI master reports a node "offline" when it is in     *)
(* maintenance or its agent is not connected; every read returns the       *)
(* current state (no stale answers); an instance changes power state only  *)
(* on this program's Start/Stop and on the compute plane completing them.  *)
(* Once the process has exited nothing more is observed, so the            *)
(* collaborators' steps stop there too.  Pool names are unique.            *)
(*                                                                         *)
(* Spec is the whole program without a clock (a Sleep or a timer may end   *)
(* at any moment).  SpecLauncher is launchNodeAgent with a clock.          *)
(* SpecCalc is calculateNumberOfBoxesToStart on its own.  SpecMalformed is *)
(* the whole program while the record of one node cannot be decoded.       *)
(* SpecProper is the whole program against collaborators that answer       *)
(* every call properly, with fair scheduling, for the liveness property.   *)
(***************************************************************************)
EXTENDS Integers, Sequences, FiniteSets, TLC

(* ------------------------------ bounds -------------------------------- *)

\* Longest "items" array of a queue response.
MaxQueueItems == 3

\* Number of poll cycles explored.
MaxCycles == 2

\* Largest value of the launcher's clock in the timed specification.
MaxElapsed == 135

\* Inputs of the pure-function specification SpecCalc.
MaxQueueArg == 12

MaxWorkers == 6

(* ------------------------- program constants -------------------------- *)

\* var workersPerBuildBox = 2
DefaultWorkersPerBuildBox == 2

\* time.After(time.Second * 120) in launchNodeAgent
AgentTimeout == 120

\* time.Sleep(time.Second * 10) in launchNodeAgent's retry goroutine
RetryInterval == 10

\* buildBoxesPool: a pool of unique node names (flag.Args() replaces the default)
InitialPool == <<"A", "B">>

Nodes == {InitialPool[i] : i \in 1..Len(InitialPool)}

VARIABLES
    procState,          \* "running" | "exited" (os.Exit or an unrecovered panic)
    panicIn,            \* "none" | the site or the node whose goroutine panicked
    answers,            \* what the collaborators may answer to the calls of this run
    mainPc,             \* position of the main goroutine
    cycle,              \* number of the current poll cycle
    queueSize,          \* main's local queueSize
    boxesNeeded,        \* startBuildBoxes' local boxesNeeded
    scanIdx,            \* index of the range loop over buildBoxesPool
    buildBoxesPool,     \* the package variable buildBoxesPool
    workersPerBuildBox, \* the package variable workersPerBuildBox
    wg,                 \* the sync.WaitGroup counter of the current pass
    taskPc,             \* per node: position of its start/stopBuildBoxAsync goroutine
    launcherPc,         \* per node: position inside launchNodeAgent
    retryPc,            \* per node: position of launchNodeAgent's retry goroutine
    onlineChannel,      \* per node: number of values buffered in onlineChannel (cap 1)
    elapsed,            \* per node: time since launchNodeAgent was invoked
    slept,              \* per node: time the retry goroutine has been in its Sleep
    idle,               \* CI master: node has no job
    temporarilyOffline, \* CI master: maintenance flag
    agentConnected,     \* CI master: the node's agent is connected
    power,              \* compute plane: instance status
    lastCmd,            \* per node: the latest command sent for it in this cycle
    stopObs,            \* per node: collaborator state when Instances.Stop was called
    onlineEnd,          \* per node: CI master state when startBuildBoxAsync returned
    startFailed,        \* per node: Instances.Start returned an error in this task
    reported,           \* nodes isNodeOffline reported offline in this scan
    launched,           \* nodes for which this scan launched startBuildBoxAsync
    nLaunched,          \* number of startBuildBoxAsync goroutines this scan launched
    doubleLaunch        \* a task was launched for a node whose task had not returned

procVars   == <<procState, panicIn, answers>>
mainVars   == <<mainPc, cycle, queueSize, boxesNeeded, scanIdx, buildBoxesPool,
                workersPerBuildBox, wg>>
launchVars == <<launcherPc, retryPc, onlineChannel>>
clockVars  == <<elapsed, slept>>
envVars    == <<idle, temporarilyOffline, agentConnected, power>>
taskGhost  == <<lastCmd, stopObs, onlineEnd, startFailed>>
scanGhost  == <<reported, launched, nLaunched, doubleLaunch>>
vars == <<procVars, mainVars, taskPc, launchVars, clockVars, envVars, taskGhost, scanGhost>>

NoObs == [seen |-> FALSE]

Min(a, b) == IF a <= b THEN a ELSE b

(* ---------------------- the collaborators' answers -------------------- *)

\* Any call may succeed or fail, any JSON read may arrive, be undecodable or
\* not arrive: the program runs against collaborators it cannot rely on.
AnyAnswers ==
    [info  |-> [n \in Nodes |-> {"ok", "malformed", "unreachable"}],
     queue |-> {"ok", "malformed", "unreachable"},
     calls |-> BOOLEAN]

\* Both collaborators answer every call properly.
ProperAnswers ==
    [info  |-> [n \in Nodes |-> {"ok"}],
     queue |-> {"ok"},
     calls |-> {TRUE}]

\* The CI master serves undecodable JSON for the record of node g; anything may
\* happen to the other calls.
MalformedFor(g) == [AnyAnswers EXCEPT !.info[g] = {"malformed"}]

(* --------------------------- pure functions --------------------------- *)

\* calculateNumberOfBoxesToStart with integer division dropped the remainder.
calculateNoRoundUp(q) == q \div workersPerBuildBox

\* func calculateNumberOfBoxesToStart(queueSize int) int
calculateNumberOfBoxesToStart(q) ==
    LET mod == IF q % workersPerBuildBox # 0 THEN 1 ELSE 0
    IN  (q \div workersPerBuildBox) + mod

\* The loop of shuffle from index i on: every choice of j = rand.Intn(i+1).
RECURSIVE shuffleFrom(_, _)
shuffleFrom(slice, i) ==
    IF i > Len(slice) THEN {slice}
    ELSE UNION { shuffleFrom([slice EXCEPT ![i] = slice[j], ![j] = slice[i]], i + 1)
                 : j \in 1..i }

\* shuffle copied slice[j] to slice[i] instead of swapping the two.
shuffleOverwrites(slice) ==
    {[slice EXCEPT ![i] = slice[j]] : i \in 1..Len(slice), j \in 1..Len(slice)}

\* func shuffle(slice []string) []string: the set of its possible results.
shuffle(slice) == shuffleFrom(slice, 1)

\* Sequences of booleans of length at most n: the buildable flags of a queue.
RECURSIVE BoolSeqs(_)
BoolSeqs(n) ==
    IF n = 0 THEN {<<>>}
    ELSE LET shorter == BoolSeqs(n - 1)
         IN  shorter \cup {Append(s, b) : s \in {t \in shorter : Len(t) = n - 1},
                                          b \in BOOLEAN}

\* What GET /queue/api/json may produce: no response, undecodable, or a queue.
QueueResponses ==
    {[kind |-> k, items |-> <<>>] : k \in answers.queue \ {"ok"}}
    \cup {[kind |-> "ok", items |-> s] :
            s \in IF "ok" \in answers.queue THEN BoolSeqs(MaxQueueItems) ELSE {}}

\* The counting loop of fetchQueueSize.
RECURSIVE countBuildable(_)
countBuildable(items) ==
    IF items = <<>> THEN 0
    ELSE (IF Head(items) THEN 1 ELSE 0) + countBuildable(Tail(items))

\* func fetchQueueSize: its result for a response that did arrive.
fetchQueueSize(resp) ==
    IF resp.kind = "malformed" THEN 0 ELSE countBuildable(resp.items)

\* httpClient.Do returned (nil, err): "defer resp.Body.Close()" dereferences nil.
Panics(kind) == kind = "unreachable"

(* ------------------------- CI master node info ------------------------ *)

\* What GET /computer/<node>/api/json may produce for node n: a node record
\* ("ok"), undecodable data ("malformed"), or no response ("unreachable").
NodeInfoResponses(n) == answers.info[n]

\* Whether a POST to the CI master or a call of the compute plane succeeds.
CallOutcomes == answers.calls

\* The JSON the CI master serves for a node.
CINodeState(n) ==
    [Idle               |-> idle[n],
     TemporarilyOffline |-> temporarilyOffline[n],
     Offline            |-> temporarilyOffline[n] \/ ~agentConnected[n],
     Monitor            |-> agentConnected[n]]

\* JenkinsBuildBoxInfo{}
ZeroInfo ==
    [Idle |-> FALSE, TemporarilyOffline |-> FALSE, Offline |-> FALSE, Monitor |-> FALSE]

\* func fetchNodeInfo: its result for a response that did arrive.
fetchNodeInfo(n, kind) == IF kind = "ok" THEN CINodeState(n) ELSE ZeroInfo

isAgentConnected(n, kind) == fetchNodeInfo(n, kind).Monitor

\* isNodeOffline answered true when the node record could not be decoded.
isNodeOfflineDefaultTrue(n, kind) == IF kind = "ok" THEN CINodeState(n).Offline ELSE TRUE

isNodeOffline(n, kind) == fetchNodeInfo(n, kind).Offline

isNodeTemporarilyOffline(n, kind) == fetchNodeInfo(n, kind).TemporarilyOffline

\* isNodeIdle answered true when the node record could not be decoded.
isNodeIdleDefaultTrue(n, kind) == IF kind = "ok" THEN CINodeState(n).Idle ELSE TRUE

isNodeIdle(n, kind) == fetchNodeInfo(n, kind).Idle

(* ---------------------------- compute plane --------------------------- *)

\* isBuildBoxRunning answered true when Instances.Get failed.
isBuildBoxRunningErrTrue(n, ok) == IF ok THEN power[n] = "RUNNING" ELSE TRUE

\* isBuildBoxRunning never answered true.
isBuildBoxRunningNever(n, ok) == FALSE

\* func isBuildBoxRunning
isBuildBoxRunning(n, ok) == IF ok THEN power[n] = "RUNNING" ELSE FALSE

\* Instances.Start accepted: a stopped instance begins to boot.
AfterStart(status) == IF status = "TERMINATED" THEN "STAGING" ELSE status

\* Instances.Stop accepted: a running instance begins to shut down.
AfterStop(status) == IF status = "RUNNING" THEN "STOPPING" ELSE status

(* ------------------------------- Init --------------------------------- *)

\* What a node looks like to the two collaborators when the program starts:
\* stopped and in maintenance (as a finished take-offline leaves it), or running
\* with its agent connected, idle or busy.
InitialNodeStates ==
    { [power |-> "TERMINATED", agent |-> FALSE, temp |-> TRUE,  idle |-> TRUE],
      [power |-> "RUNNING",    agent |-> TRUE,  temp |-> FALSE, idle |-> TRUE],
      [power |-> "RUNNING",    agent |-> TRUE,  temp |-> FALSE, idle |-> FALSE] }

\* No goroutine but main, nothing observed yet.
InitTasks ==
    /\ procState = "running"
    /\ panicIn = "none"
    /\ cycle = 1
    /\ boxesNeeded = 0
    /\ scanIdx = 1
    /\ buildBoxesPool = InitialPool
    /\ wg = 0
    /\ taskPc = [n \in Nodes |-> "none"]
    /\ launcherPc = [n \in Nodes |-> "off"]
    /\ retryPc = [n \in Nodes |-> "none"]
    /\ onlineChannel = [n \in Nodes |-> 0]
    /\ elapsed = [n \in Nodes |-> 0]
    /\ slept = [n \in Nodes |-> 0]
    /\ lastCmd = [n \in Nodes |-> "none"]
    /\ stopObs = [n \in Nodes |-> NoObs]
    /\ onlineEnd = [n \in Nodes |-> NoObs]
    /\ startFailed = [n \in Nodes |-> FALSE]
    /\ reported = {}
    /\ launched = {}
    /\ nLaunched = 0
    /\ doubleLaunch = FALSE

\* The collaborators' state of every node is one of InitialNodeStates.
InitEnv ==
    \E st \in [Nodes -> InitialNodeStates] :
      /\ power = [n \in Nodes |-> st[n].power]
      /\ agentConnected = [n \in Nodes |-> st[n].agent]
      /\ temporarilyOffline = [n \in Nodes |-> st[n].temp]
      /\ idle = [n \in Nodes |-> st[n].idle]

\* main has its clients and enters its for loop; any call may fail.
Init ==
    /\ InitTasks
    /\ answers = AnyAnswers
    /\ mainPc = "fetch"
    /\ queueSize = 0
    /\ workersPerBuildBox = DefaultWorkersPerBuildBox
    /\ InitEnv

(* ------------------------------ main loop ----------------------------- *)

Alive == procState = "running"

\* A nil-pointer panic at site "who": in main it is recovered and os.Exit(1) runs,
\* in any other goroutine it is unrecovered; both end the whole process.
Panic(who) ==
    /\ procState' = "exited"
    /\ panicIn' = who
    /\ UNCHANGED answers

\* main ran startBuildBoxes whatever the sample.
ScalesUpAlways(q) == TRUE

\* if queueSize > 0 { startBuildBoxes } else { stopBuildBoxes }
ScalesUp(q) == q > 0

\* for { queueSize := fetchQueueSize(httpClient); if queueSize > 0 {...} else {...}
FetchQueue ==
    /\ Alive
    /\ mainPc = "fetch"
    /\ \E resp \in QueueResponses :
         IF Panics(resp.kind)
         THEN /\ Panic("fetchQueueSize")
              /\ UNCHANGED <<mainVars, taskPc, launchVars, clockVars, envVars,
                             taskGhost, scanGhost>>
         ELSE /\ queueSize' = fetchQueueSize(resp)
              /\ mainPc' = IF ScalesUp(fetchQueueSize(resp)) THEN "startBuildBoxes"
                                                              ELSE "stopBuildBoxes"
              /\ UNCHANGED <<procVars, cycle, boxesNeeded, scanIdx, buildBoxesPool,
                             workersPerBuildBox, wg, taskPc, launchVars, clockVars,
                             envVars, taskGhost, scanGhost>>

\* startBuildBoxes up to its loop: boxesNeeded, the WaitGroup, the shuffle.
StartBuildBoxesBegin ==
    /\ Alive
    /\ mainPc = "startBuildBoxes"
    /\ boxesNeeded' = calculateNumberOfBoxesToStart(queueSize)
    /\ buildBoxesPool' \in shuffle(buildBoxesPool)
    /\ scanIdx' = 1
    /\ wg' = 0
    /\ mainPc' = IF Len(buildBoxesPool) = 0 THEN "waitUp" ELSE "scan"
    /\ UNCHANGED <<procVars, cycle, queueSize, workersPerBuildBox, taskPc, launchVars,
                   clockVars, envVars, taskGhost, scanGhost>>

\* if isNodeOffline(httpClient, buildBox) { wg.Add(1); go startBuildBoxAsync(...) ...
LaunchesFor(offline) == offline

\* The scan stopped only at the end of the pool.
ScanStopsAtEndOnly(needed, idx, pool) == idx >= Len(pool)

\* if boxesNeeded <= 0 { wg.Wait(); return }, or the range loop is exhausted.
ScanStops(needed, idx, pool) == needed <= 0 \/ idx >= Len(pool)

\* The early exit of the scan returned without wg.Wait().
ScanExitEarlyNoWait(needed) == IF needed <= 0 THEN "sleep" ELSE "waitUp"

\* Where main goes when the scan stops: "if boxesNeeded <= 0 { wg.Wait(); return }"
\* and the wg.Wait() after the loop both wait for the tasks launched.
ScanExit(needed) == "waitUp"

\* wg.Wait() returned at once.
WaitGroupNoWait(counter) == TRUE

\* wg.Wait() returns when the counter is zero.
WaitGroupDone(counter) == counter = 0

\* One iteration of the range loop of startBuildBoxes.
ScanStep ==
    /\ Alive
    /\ mainPc = "scan"
    /\ LET b == buildBoxesPool[scanIdx] IN
       \E kind \in NodeInfoResponses(b) :
         IF Panics(kind)
         THEN /\ Panic("startBuildBoxes")
              /\ UNCHANGED <<mainVars, taskPc, launchVars, clockVars, envVars,
                             taskGhost, scanGhost>>
         ELSE LET off    == isNodeOffline(b, kind)
                  go     == LaunchesFor(off)
                  needed == IF go THEN boxesNeeded - 1 ELSE boxesNeeded
              IN  /\ boxesNeeded' = needed
                  /\ wg' = IF go THEN wg + 1 ELSE wg
                  /\ taskPc' = IF go THEN [taskPc EXCEPT ![b] = "s_checkTemp"] ELSE taskPc
                  /\ reported' = IF off THEN reported \cup {b} ELSE reported
                  /\ launched' = IF go THEN launched \cup {b} ELSE launched
                  /\ nLaunched' = IF go THEN nLaunched + 1 ELSE nLaunched
                  /\ doubleLaunch' = (doubleLaunch \/ (go /\ taskPc[b] # "none"))
                  /\ IF ScanStops(needed, scanIdx, buildBoxesPool)
                     THEN mainPc' = ScanExit(needed) /\ scanIdx' = scanIdx
                     ELSE mainPc' = "scan" /\ scanIdx' = scanIdx + 1
                  /\ UNCHANGED <<procVars, cycle, queueSize, buildBoxesPool,
                                 workersPerBuildBox, launchVars, clockVars, envVars,
                                 taskGhost>>

\* wg.Wait() of startBuildBoxes
StartBuildBoxesWait ==
    /\ Alive
    /\ mainPc = "waitUp"
    /\ WaitGroupDone(wg)
    /\ mainPc' = "sleep"
    /\ UNCHANGED <<procVars, cycle, queueSize, boxesNeeded, scanIdx, buildBoxesPool,
                   workersPerBuildBox, wg, taskPc, launchVars, clockVars, envVars,
                   taskGhost, scanGhost>>

\* The loop of stopBuildBoxes: one stopBuildBoxAsync goroutine per pool entry.
StopBuildBoxesLaunch ==
    /\ Alive
    /\ mainPc = "stopBuildBoxes"
    /\ wg' = Len(buildBoxesPool)
    /\ taskPc' = [n \in Nodes |->
                    IF \E i \in 1..Len(buildBoxesPool) : buildBoxesPool[i] = n
                    THEN "t_idle" ELSE taskPc[n]]
    /\ mainPc' = "waitDown"
    /\ doubleLaunch' =
         (\/ doubleLaunch
          \/ \E i \in 1..Len(buildBoxesPool) : taskPc[buildBoxesPool[i]] # "none"
          \/ \E i, j \in 1..Len(buildBoxesPool) :
                i # j /\ buildBoxesPool[i] = buildBoxesPool[j])
    /\ UNCHANGED <<procVars, cycle, queueSize, boxesNeeded, scanIdx, buildBoxesPool,
                   workersPerBuildBox, launchVars, clockVars, envVars, taskGhost,
                   reported, launched, nLaunched>>

\* wg.Wait() of stopBuildBoxes
StopBuildBoxesWait ==
    /\ Alive
    /\ mainPc = "waitDown"
    /\ WaitGroupDone(wg)
    /\ mainPc' = "sleep"
    /\ UNCHANGED <<procVars, cycle, queueSize, boxesNeeded, scanIdx, buildBoxesPool,
                   workersPerBuildBox, wg, taskPc, launchVars, clockVars, envVars,
                   taskGhost, scanGhost>>

\* time.Sleep(time.Second * 8), then the next iteration of main's loop.  The
\* observations of the finished cycle are cleared.
Sleep ==
    /\ Alive
    /\ mainPc = "sleep"
    /\ cycle < MaxCycles
    /\ cycle' = cycle + 1
    /\ mainPc' = "fetch"
    /\ lastCmd' = [n \in Nodes |-> "none"]
    /\ stopObs' = [n \in Nodes |-> NoObs]
    /\ onlineEnd' = [n \in Nodes |-> NoObs]
    /\ startFailed' = [n \in Nodes |-> FALSE]
    /\ reported' = {}
    /\ launched' = {}
    /\ nLaunched' = 0
    /\ UNCHANGED <<procVars, queueSize, boxesNeeded, scanIdx, buildBoxesPool,
                   workersPerBuildBox, wg, taskPc, launchVars, clockVars, envVars,
                   doubleLaunch>>

(* ---------------------------- collaborators --------------------------- *)

\* The CI master dispatches a job to a node that is online and not in maintenance.
AssignJob(n) ==
    /\ Alive
    /\ idle[n] /\ ~temporarilyOffline[n] /\ agentConnected[n]
    /\ idle' = [idle EXCEPT ![n] = FALSE]
    /\ UNCHANGED <<procVars, mainVars, taskPc, launchVars, clockVars,
                   temporarilyOffline, agentConnected, power, taskGhost, scanGhost>>

\* A job ends.
FinishJob(n) ==
    /\ Alive
    /\ ~idle[n]
    /\ idle' = [idle EXCEPT ![n] = TRUE]
    /\ UNCHANGED <<procVars, mainVars, taskPc, launchVars, clockVars,
                   temporarilyOffline, agentConnected, power, taskGhost, scanGhost>>

\* The agent of a running instance connects to the CI master.
AgentConnect(n) ==
    /\ Alive
    /\ power[n] = "RUNNING" /\ ~agentConnected[n]
    /\ agentConnected' = [agentConnected EXCEPT ![n] = TRUE]
    /\ UNCHANGED <<procVars, mainVars, taskPc, launchVars, clockVars,
                   idle, temporarilyOffline, power, taskGhost, scanGhost>>

\* The compute plane completes a transition it accepted earlier; a machine that
\* has shut down has no agent and no job.
PowerSettle(n) ==
    /\ Alive
    /\ \/ /\ power[n] = "STAGING"
          /\ power' = [power EXCEPT ![n] = "RUNNING"]
          /\ UNCHANGED <<idle, agentConnected>>
       \/ /\ power[n] = "STOPPING"
          /\ power' = [power EXCEPT ![n] = "TERMINATED"]
          /\ agentConnected' = [agentConnected EXCEPT ![n] = FALSE]
          /\ idle' = [idle EXCEPT ![n] = TRUE]
    /\ UNCHANGED <<procVars, mainVars, taskPc, launchVars, clockVars,
                   temporarilyOffline, taskGhost, scanGhost>>

(* ------------------------ per-node task helpers ----------------------- *)

Goto(n, pc) == taskPc' = [taskPc EXCEPT ![n] = pc]

\* defer wg.Done(): the goroutine of node n ends.
TaskReturn(n) ==
    /\ taskPc' = [taskPc EXCEPT ![n] = "none"]
    /\ wg' = wg - 1

Sent(n, cmd) == lastCmd' = [lastCmd EXCEPT ![n] = cmd]

\* POST .../toggleOffline: the CI master flips the flag when the request arrives.
toggleNodeStatus(flag, ok) == IF ok THEN ~flag ELSE flag

\* waitForStatus gave up when Instances.Get failed.
waitForStatusReturnsOnError(n, ok, status) == ~ok \/ power[n] = status

\* One iteration of waitForStatus: it returns only when Get succeeded with the
\* target status; on an error or another status the loop goes round again.
waitForStatusReturns(n, ok, status) == ok /\ power[n] = status

\* The positions of a startBuildBoxAsync goroutine, and of a stopBuildBoxAsync one.
StartPcs == {"s_checkTemp", "s_toggleOff", "s_isRunning", "s_start", "s_wait",
             "s_settle", "s_agentCheck", "s_inLaunch", "s_checkTemp2", "s_toggleOn"}

StopPcs == {"t_idle", "t_checkTemp", "t_toggle", "t_isRunning", "t_stop", "t_wait"}

\* The CI master's view of node n when startBuildBoxAsync returns.
OnlineEndNow(n, temp) ==
    [seen |-> TRUE, temp |-> temp, agent |-> agentConnected[n]]

(* ------------------------- startBuildBoxAsync ------------------------- *)

\* if !isNodeTemporarilyOffline(httpClient, buildBox) {
StartCheckTemp(n) ==
    /\ Alive
    /\ taskPc[n] = "s_checkTemp"
    /\ \E kind \in NodeInfoResponses(n) :
         IF Panics(kind)
         THEN /\ Panic(n)
              /\ UNCHANGED <<mainVars, taskPc, launchVars, clockVars, envVars,
                             taskGhost, scanGhost>>
         ELSE /\ Goto(n, IF isNodeTemporarilyOffline(n, kind) THEN "s_isRunning"
                                                              ELSE "s_toggleOff")
              /\ UNCHANGED <<procVars, mainVars, launchVars, clockVars, envVars,
                             taskGhost, scanGhost>>

\*     toggleNodeStatus(httpClient, buildBox, "offline") }
StartToggleOffline(n) ==
    /\ Alive
    /\ taskPc[n] = "s_toggleOff"
    /\ \E ok \in CallOutcomes :
         temporarilyOffline' =
             [temporarilyOffline EXCEPT ![n] = toggleNodeStatus(@, ok)]
    /\ Sent(n, "toggleOffline")
    /\ Goto(n, "s_isRunning")
    /\ UNCHANGED <<procVars, mainVars, launchVars, clockVars, idle, agentConnected,
                   power, stopObs, onlineEnd, startFailed, scanGhost>>

\* startBuildBox: if isBuildBoxRunning(service, buildBox) { return }
StartIsRunning(n) ==
    /\ Alive
    /\ taskPc[n] = "s_isRunning"
    /\ \E ok \in CallOutcomes :
         Goto(n, IF isBuildBoxRunning(n, ok) THEN "s_agentCheck" ELSE "s_start")
    /\ UNCHANGED <<procVars, mainVars, launchVars, clockVars, envVars, taskGhost,
                   scanGhost>>

\* startBuildBox: service.Instances.Start(...).Do(); if err != nil { return }.
\* That return leaves startBuildBox only: startBuildBoxAsync goes on with
\* isAgentConnected.
StartRequest(n) ==
    /\ Alive
    /\ taskPc[n] = "s_start"
    /\ Sent(n, "start")
    /\ \E ok \in CallOutcomes :
         IF ok
         THEN /\ power' = [power EXCEPT ![n] = AfterStart(@)]
              /\ Goto(n, "s_wait")
              /\ UNCHANGED startFailed
         ELSE /\ startFailed' = [startFailed EXCEPT ![n] = TRUE]
              /\ Goto(n, "s_agentCheck")
              /\ UNCHANGED power
    /\ UNCHANGED <<procVars, mainVars, launchVars, clockVars, idle,
                   temporarilyOffline, agentConnected, stopObs, onlineEnd, scanGhost>>

\* startBuildBox: waitForStatus(service, buildBox, "RUNNING")
StartWait(n) ==
    /\ Alive
    /\ taskPc[n] = "s_wait"
    /\ \E ok \in CallOutcomes : waitForStatusReturns(n, ok, "RUNNING")
    /\ Goto(n, "s_settle")
    /\ UNCHANGED <<procVars, mainVars, launchVars, clockVars, envVars, taskGhost,
                   scanGhost>>

\* startBuildBoxAsync went from startBuildBox straight to its last check, without
\* the agent check.
StartSettleSkipsAgent(n) ==
    /\ Alive
    /\ taskPc[n] = "s_settle"
    /\ Goto(n, "s_checkTemp2")
    /\ UNCHANGED <<procVars, mainVars, launchVars, clockVars, envVars, taskGhost,
                   scanGhost>>

\* startBuildBox: time.Sleep(time.Second * 20)
StartSettle(n) ==
    /\ Alive
    /\ taskPc[n] = "s_settle"
    /\ Goto(n, "s_agentCheck")
    /\ UNCHANGED <<procVars, mainVars, launchVars, clockVars, envVars, taskGhost,
                   scanGhost>>

\* if !isAgentConnected(httpClient, buildBox) { launchNodeAgent(...) }: on "not
\* connected" launchNodeAgent makes its channels, starts the retry goroutine
\* (whose first select takes default, nobody sending on quit yet, and so begins
\* its isAgentConnected call), starts the timer and blocks in its select.
StartAgentCheck(n) ==
    /\ Alive
    /\ taskPc[n] = "s_agentCheck"
    /\ \E kind \in NodeInfoResponses(n) :
         IF Panics(kind)
         THEN /\ Panic(n)
              /\ UNCHANGED <<mainVars, taskPc, launchVars, clockVars, envVars,
                             taskGhost, scanGhost>>
         ELSE IF isAgentConnected(n, kind)
         THEN /\ Goto(n, "s_checkTemp2")
              /\ UNCHANGED <<procVars, mainVars, launchVars, clockVars, envVars,
                             taskGhost, scanGhost>>
         ELSE /\ Goto(n, "s_inLaunch")
              /\ launcherPc' = [launcherPc EXCEPT ![n] = "select"]
              /\ retryPc' = [retryPc EXCEPT ![n] = "check"]
              /\ onlineChannel' = [onlineChannel EXCEPT ![n] = 0]
              /\ elapsed' = [elapsed EXCEPT ![n] = 0]
              /\ UNCHANGED <<procVars, mainVars, slept, envVars, taskGhost, scanGhost>>

\* if isNodeTemporarilyOffline(httpClient, buildBox) {   (else the task returns)
StartCheckTemp2(n) ==
    /\ Alive
    /\ taskPc[n] = "s_checkTemp2"
    /\ \E kind \in NodeInfoResponses(n) :
         IF Panics(kind)
         THEN /\ Panic(n)
              /\ UNCHANGED <<mainVars, taskPc, launchVars, clockVars, envVars,
                             taskGhost, scanGhost>>
         ELSE IF isNodeTemporarilyOffline(n, kind)
         THEN /\ Goto(n, "s_toggleOn")
              /\ UNCHANGED <<procVars, mainVars, launchVars, clockVars, envVars,
                             taskGhost, scanGhost>>
         ELSE /\ TaskReturn(n)
              /\ onlineEnd' = [onlineEnd EXCEPT
                                 ![n] = OnlineEndNow(n, temporarilyOffline[n])]
              /\ UNCHANGED <<procVars, mainPc, cycle, queueSize, boxesNeeded, scanIdx,
                             buildBoxesPool, workersPerBuildBox, launchVars, clockVars,
                             envVars, lastCmd, stopObs, startFailed, scanGhost>>

\*     toggleNodeStatus(httpClient, buildBox, "online") }, and the task returns.
StartToggleOnline(n) ==
    /\ Alive
    /\ taskPc[n] = "s_toggleOn"
    /\ \E ok \in CallOutcomes :
         LET flag == toggleNodeStatus(temporarilyOffline[n], ok)
         IN  /\ temporarilyOffline' = [temporarilyOffline EXCEPT ![n] = flag]
             /\ onlineEnd' = [onlineEnd EXCEPT ![n] = OnlineEndNow(n, flag)]
    /\ Sent(n, "toggleOnline")
    /\ TaskReturn(n)
    /\ UNCHANGED <<procVars, mainPc, cycle, queueSize, boxesNeeded, scanIdx,
                   buildBoxesPool, workersPerBuildBox, launchVars, clockVars, idle,
                   agentConnected, power, stopObs, startFailed, scanGhost>>

(* -------------------------- stopBuildBoxAsync ------------------------- *)

\* if !isNodeIdle(httpClient, buildBox) { return }
StopCheckIdle(n) ==
    /\ Alive
    /\ taskPc[n] = "t_idle"
    /\ \E kind \in NodeInfoResponses(n) :
         IF Panics(kind)
         THEN /\ Panic(n)
              /\ UNCHANGED <<mainVars, taskPc, launchVars, clockVars, envVars,
                             taskGhost, scanGhost>>
         ELSE IF isNodeIdle(n, kind)
         THEN /\ Goto(n, "t_checkTemp")
              /\ UNCHANGED <<procVars, mainVars, launchVars, clockVars, envVars,
                             taskGhost, scanGhost>>
         ELSE /\ TaskReturn(n)
              /\ UNCHANGED <<procVars, mainPc, cycle, queueSize, boxesNeeded, scanIdx,
                             buildBoxesPool, workersPerBuildBox, launchVars, clockVars,
                             envVars, taskGhost, scanGhost>>

\* if !isNodeTemporarilyOffline(httpClient, buildBox) {
StopCheckTemp(n) ==
    /\ Alive
    /\ taskPc[n] = "t_checkTemp"
    /\ \E kind \in NodeInfoResponses(n) :
         IF Panics(kind)
         THEN /\ Panic(n)
              /\ UNCHANGED <<mainVars, taskPc, launchVars, clockVars, envVars,
                             taskGhost, scanGhost>>
         ELSE /\ Goto(n, IF isNodeTemporarilyOffline(n, kind) THEN "t_isRunning"
                                                              ELSE "t_toggle")
              /\ UNCHANGED <<procVars, mainVars, launchVars, clockVars, envVars,
                             taskGhost, scanGhost>>

\*     toggleNodeStatus(httpClient, buildBox, "offline") }
StopToggleOffline(n) ==
    /\ Alive
    /\ taskPc[n] = "t_toggle"
    /\ \E ok \in CallOutcomes :
         temporarilyOffline' =
             [temporarilyOffline EXCEPT ![n] = toggleNodeStatus(@, ok)]
    /\ Sent(n, "toggleOffline")
    /\ Goto(n, "t_isRunning")
    /\ UNCHANGED <<procVars, mainVars, launchVars, clockVars, idle, agentConnected,
                   power, stopObs, onlineEnd, startFailed, scanGhost>>

\* ensureBuildBoxIsNotRunning: if isBuildBoxRunning(svc, buildBox) { stopBuildBox }
StopIsRunning(n) ==
    /\ Alive
    /\ taskPc[n] = "t_isRunning"
    /\ \E ok \in CallOutcomes :
         IF isBuildBoxRunning(n, ok)
         THEN /\ Goto(n, "t_stop")
              /\ UNCHANGED wg
         ELSE TaskReturn(n)
    /\ UNCHANGED <<procVars, mainPc, cycle, queueSize, boxesNeeded, scanIdx,
                   buildBoxesPool, workersPerBuildBox, launchVars, clockVars, envVars,
                   taskGhost, scanGhost>>

\* stopBuildBox: service.Instances.Stop(...).Do(); if err != nil { return err }
StopRequest(n) ==
    /\ Alive
    /\ taskPc[n] = "t_stop"
    /\ Sent(n, "stop")
    /\ stopObs' = [stopObs EXCEPT ![n] =
                     [seen |-> TRUE, idle |-> idle[n], temp |-> temporarilyOffline[n],
                      power |-> power[n]]]
    /\ \E ok \in CallOutcomes :
         IF ok
         THEN /\ power' = [power EXCEPT ![n] = AfterStop(@)]
              /\ Goto(n, "t_wait")
              /\ UNCHANGED wg
         ELSE /\ TaskReturn(n)
              /\ UNCHANGED power
    /\ UNCHANGED <<procVars, mainPc, cycle, queueSize, boxesNeeded, scanIdx,
                   buildBoxesPool, workersPerBuildBox, launchVars, clockVars, idle,
                   temporarilyOffline, agentConnected, onlineEnd, startFailed,
                   scanGhost>>

\* stopBuildBox: waitForStatus(service, buildBox, "TERMINATED"), and the task returns.
StopWait(n) ==
    /\ Alive
    /\ taskPc[n] = "t_wait"
    /\ \E ok \in CallOutcomes : waitForStatusReturns(n, ok, "TERMINATED")
    /\ TaskReturn(n)
    /\ UNCHANGED <<procVars, mainPc, cycle, queueSize, boxesNeeded, scanIdx,
                   buildBoxesPool, workersPerBuildBox, launchVars, clockVars, envVars,
                   taskGhost, scanGhost>>

(* --------------------------- launchNodeAgent -------------------------- *)

\* launchNodeAgent returns to startBuildBoxAsync; its channels are garbage.
LauncherReturn(n) ==
    /\ launcherPc' = [launcherPc EXCEPT ![n] = "off"]
    /\ onlineChannel' = [onlineChannel EXCEPT ![n] = 0]
    /\ Goto(n, "s_checkTemp2")

\* retry goroutine, after its Sleep: select { case <-quit: return.  The
\* unbuffered quit has a value to receive only while launchNodeAgent is blocked
\* in "quit <- true"; the rendezvous ends the goroutine and lets launchNodeAgent
\* return.
RetryQuit(n) ==
    /\ Alive
    /\ retryPc[n] = "sleep"
    /\ launcherPc[n] = "sendQuit"
    /\ retryPc' = [retryPc EXCEPT ![n] = "none"]
    /\ slept' = [slept EXCEPT ![n] = 0]
    /\ LauncherReturn(n)
    /\ UNCHANGED <<procVars, mainVars, elapsed, envVars, taskGhost, scanGhost>>

\* retry goroutine, after its Sleep: select { ... default: with no sender on
\* quit, it begins the next isAgentConnected call.
RetryDefault(n) ==
    /\ Alive
    /\ retryPc[n] = "sleep"
    /\ launcherPc[n] # "sendQuit"
    /\ retryPc' = [retryPc EXCEPT ![n] = "check"]
    /\ slept' = [slept EXCEPT ![n] = 0]
    /\ UNCHANGED <<procVars, mainVars, taskPc, launcherPc, onlineChannel, elapsed,
                   envVars, taskGhost, scanGhost>>

\* retry goroutine: if isAgentConnected(...) { onlineChannel <- true; return }
\* (the send never blocks: the channel has room for one value and gets one).
RetryCheck(n) ==
    /\ Alive
    /\ retryPc[n] = "check"
    /\ \E kind \in NodeInfoResponses(n) :
         IF Panics(kind)
         THEN /\ Panic(n)
              /\ UNCHANGED <<mainVars, taskPc, launchVars, clockVars, envVars,
                             taskGhost, scanGhost>>
         ELSE IF isAgentConnected(n, kind)
         THEN /\ onlineChannel' = [onlineChannel EXCEPT ![n] = @ + 1]
              /\ retryPc' = [retryPc EXCEPT ![n] = "none"]
              /\ UNCHANGED <<procVars, mainVars, taskPc, launcherPc, clockVars,
                             envVars, taskGhost, scanGhost>>
         ELSE /\ retryPc' = [retryPc EXCEPT ![n] = "relaunch"]
              /\ UNCHANGED <<procVars, mainVars, taskPc, launcherPc, onlineChannel,
                             clockVars, envVars, taskGhost, scanGhost>>

\* retry goroutine: POST .../launchSlaveAgent (its result is dropped), then the
\* goroutine enters time.Sleep(time.Second * 10).
RetryRelaunch(n) ==
    /\ Alive
    /\ retryPc[n] = "relaunch"
    /\ Sent(n, "launchSlaveAgent")
    /\ retryPc' = [retryPc EXCEPT ![n] = "sleep"]
    /\ slept' = [slept EXCEPT ![n] = 0]
    /\ UNCHANGED <<procVars, mainVars, taskPc, launcherPc, onlineChannel, elapsed,
                   envVars, stopObs, onlineEnd, startFailed, scanGhost>>

\* launchNodeAgent: select { case <-onlineChannel: }
LauncherOnline(n) ==
    /\ Alive
    /\ launcherPc[n] = "select"
    /\ onlineChannel[n] > 0
    /\ LauncherReturn(n)
    /\ UNCHANGED <<procVars, mainVars, retryPc, clockVars, envVars, taskGhost,
                   scanGhost>>

\* On the timer launchNodeAgent returned without handing quit to the retry
\* goroutine.
LauncherTimeoutNoWait(n) ==
    /\ Alive
    /\ launcherPc[n] = "select"
    /\ LauncherReturn(n)
    /\ UNCHANGED <<procVars, mainVars, retryPc, clockVars, envVars, taskGhost,
                   scanGhost>>

\* launchNodeAgent: select { case <-time.After(time.Second * 120): log;
\* quit <- true }: the timer's value is taken, and the send on the unbuffered
\* quit blocks until the retry goroutine receives.
LauncherTimeout(n) ==
    /\ Alive
    /\ launcherPc[n] = "select"
    /\ launcherPc' = [launcherPc EXCEPT ![n] = "sendQuit"]
    /\ UNCHANGED <<procVars, mainVars, taskPc, retryPc, onlineChannel, clockVars,
                   envVars, taskGhost, scanGhost>>

(* --------------------------- specification ---------------------------- *)

MainStep ==
    \/ FetchQueue
    \/ StartBuildBoxesBegin
    \/ ScanStep
    \/ StartBuildBoxesWait
    \/ StopBuildBoxesLaunch
    \/ StopBuildBoxesWait
    \/ Sleep

StartTaskStep(n) ==
    \/ StartCheckTemp(n)
    \/ StartToggleOffline(n)
    \/ StartIsRunning(n)
    \/ StartRequest(n)
    \/ StartWait(n)
    \/ StartSettle(n)
    \/ StartAgentCheck(n)
    \/ StartCheckTemp2(n)
    \/ StartToggleOnline(n)

StopTaskStep(n) ==
    \/ StopCheckIdle(n)
    \/ StopCheckTemp(n)
    \/ StopToggleOffline(n)
    \/ StopIsRunning(n)
    \/ StopRequest(n)
    \/ StopWait(n)

LauncherStep(n) ==
    \/ RetryQuit(n)
    \/ RetryDefault(n)
    \/ RetryCheck(n)
    \/ RetryRelaunch(n)
    \/ LauncherOnline(n)
    \/ LauncherTimeout(n)

EnvStep(n) ==
    \/ AssignJob(n)
    \/ FinishJob(n)
    \/ AgentConnect(n)
    \/ PowerSettle(n)

Next ==
    \/ MainStep
    \/ \E n \in Nodes :
         \/ StartTaskStep(n)
         \/ StopTaskStep(n)
         \/ LauncherStep(n)
         \/ EnvStep(n)

Spec == Init /\ [][Next]_vars

(* ------------------ launchNodeAgent with its clock -------------------- *)

\* A state of Spec in which launchNodeAgent has just been invoked for node A:
\* the queue held one buildable item, the scan found A offline and launched its
\* task, the instance was started and reached RUNNING, and isAgentConnected
\* answered "not connected".
InitLauncher ==
    /\ procState = "running"
    /\ panicIn = "none"
    /\ answers = AnyAnswers
    /\ mainPc = "waitUp"
    /\ cycle = 1
    /\ queueSize = 1
    /\ boxesNeeded = 0
    /\ scanIdx = 1
    /\ buildBoxesPool = InitialPool
    /\ workersPerBuildBox = DefaultWorkersPerBuildBox
    /\ wg = 1
    /\ taskPc = [n \in Nodes |-> IF n = "A" THEN "s_inLaunch" ELSE "none"]
    /\ launcherPc = [n \in Nodes |-> IF n = "A" THEN "select" ELSE "off"]
    /\ retryPc = [n \in Nodes |-> IF n = "A" THEN "check" ELSE "none"]
    /\ onlineChannel = [n \in Nodes |-> 0]
    /\ elapsed = [n \in Nodes |-> 0]
    /\ slept = [n \in Nodes |-> 0]
    /\ lastCmd = [n \in Nodes |-> IF n = "A" THEN "start" ELSE "none"]
    /\ stopObs = [n \in Nodes |-> NoObs]
    /\ onlineEnd = [n \in Nodes |-> NoObs]
    /\ startFailed = [n \in Nodes |-> FALSE]
    /\ reported = {"A"}
    /\ launched = {"A"}
    /\ nLaunched = 1
    /\ doubleLaunch = FALSE
    /\ \E st \in [Nodes -> InitialNodeStates] :
         /\ power = [n \in Nodes |-> IF n = "A" THEN "RUNNING" ELSE st[n].power]
         /\ agentConnected = [n \in Nodes |-> IF n = "A" THEN FALSE ELSE st[n].agent]
         /\ temporarilyOffline = [n \in Nodes |-> IF n = "A" THEN TRUE ELSE st[n].temp]
         /\ idle = [n \in Nodes |-> IF n = "A" THEN TRUE ELSE st[n].idle]

\* Something that takes no time is ready to run: a select of launchNodeAgent with
\* a ready case (a value in onlineChannel, or the timer's value once 120 time
\* units have passed), or a retry goroutine whose Sleep is over.
Urgent(n) ==
    \/ /\ launcherPc[n] = "select"
       /\ onlineChannel[n] > 0 \/ elapsed[n] >= AgentTimeout
    \/ /\ retryPc[n] = "sleep"
       /\ slept[n] >= RetryInterval

\* One time unit passes: while a goroutine sleeps, waits in a select with no
\* ready case, waits for a receiver on quit, or waits for an HTTP response (the
\* http.Client has no timeout, so a call may take any time).
Tick ==
    /\ Alive
    /\ \E n \in Nodes : launcherPc[n] # "off"
    /\ \A n \in Nodes : ~Urgent(n)
    /\ \A n \in Nodes : elapsed[n] < MaxElapsed
    /\ elapsed' = [n \in Nodes |->
                     IF launcherPc[n] # "off" THEN elapsed[n] + 1 ELSE elapsed[n]]
    /\ slept' = [n \in Nodes |->
                   IF retryPc[n] = "sleep" THEN slept[n] + 1 ELSE slept[n]]
    /\ UNCHANGED <<procVars, mainVars, taskPc, launchVars, envVars, taskGhost,
                   scanGhost>>

\* The steps of launchNodeAgent and its retry goroutine, each at a time the
\* code's Sleep and timer allow, and the agent connecting on its own.
NextLauncher ==
    \/ Tick
    \/ \E n \in Nodes :
         \/ slept[n] >= RetryInterval /\ RetryQuit(n)
         \/ slept[n] >= RetryInterval /\ RetryDefault(n)
         \/ RetryCheck(n)
         \/ RetryRelaunch(n)
         \/ LauncherOnline(n)
         \/ elapsed[n] >= AgentTimeout /\ LauncherTimeout(n)
         \/ AgentConnect(n)

SpecLauncher == InitLauncher /\ [][NextLauncher]_vars

(* ------------------ calculateNumberOfBoxesToStart alone --------------- *)

\* startBuildBoxes is entered with any queue size and any worker count.
InitCalc ==
    /\ InitTasks
    /\ answers = AnyAnswers
    /\ mainPc = "calc"
    /\ queueSize \in 0..MaxQueueArg
    /\ workersPerBuildBox \in 1..MaxWorkers
    /\ power = [n \in Nodes |-> "TERMINATED"]
    /\ agentConnected = [n \in Nodes |-> FALSE]
    /\ temporarilyOffline = [n \in Nodes |-> TRUE]
    /\ idle = [n \in Nodes |-> TRUE]

\* boxesNeeded := calculateNumberOfBoxesToStart(queueSize)
Calculate ==
    /\ mainPc = "calc"
    /\ boxesNeeded' = calculateNumberOfBoxesToStart(queueSize)
    /\ mainPc' = "calculated"
    /\ UNCHANGED <<procVars, cycle, queueSize, scanIdx, buildBoxesPool,
                   workersPerBuildBox, wg, taskPc, launchVars, clockVars, envVars,
                   taskGhost, scanGhost>>

SpecCalc == InitCalc /\ [][Calculate]_vars

(* ------------- a node whose record cannot be decoded ------------------ *)

\* The program starts while the CI master serves undecodable JSON for the
\* record of one pool node.
InitMalformed ==
    /\ InitTasks
    /\ \E g \in Nodes : answers = MalformedFor(g)
    /\ mainPc = "fetch"
    /\ queueSize = 0
    /\ workersPerBuildBox = DefaultWorkersPerBuildBox
    /\ InitEnv

SpecMalformed == InitMalformed /\ [][Next]_vars

(* ------------------ collaborators that always answer ------------------ *)

\* The program starts against collaborators that answer every call properly.
InitProper ==
    /\ InitTasks
    /\ answers = ProperAnswers
    /\ mainPc = "fetch"
    /\ queueSize = 0
    /\ workersPerBuildBox = DefaultWorkersPerBuildBox
    /\ InitEnv

\* The Go scheduler runs every goroutine that can take a step, a timer or a
\* Sleep ends, and the compute plane completes the transitions it accepted.
Fairness ==
    /\ WF_vars(MainStep)
    /\ \A n \in Nodes :
         /\ WF_vars(StartTaskStep(n))
         /\ WF_vars(StopTaskStep(n))
         /\ WF_vars(LauncherStep(n))
         /\ WF_vars(PowerSettle(n))

SpecProper == InitProper /\ [][Next]_vars /\ Fairness

(* ------------------------------ claims -------------------------------- *)

\* The least k with k * w >= q.
CeilDiv(q, w) ==
    CHOOSE k \in 0..q : k * w >= q /\ \A j \in 0..q : j * w >= q => k <= j

\* C1: scale-down never stops a busy node: whenever Instances.Stop is called
\* for a node, the CI master holds idle = true for that node at that moment.
C1_StopOnlyIdleNode ==
    \A n \in Nodes : stopObs[n].seen => stopObs[n].idle

\* C2: whenever startBuildBoxAsync returns for a node, the node is in
\* maintenance (temporarilyOffline = true) or its agent is connected; it never
\* returns with temporarilyOffline = false and the agent not connected.
C2_OnlineEndRegisteredOrMaintenance ==
    \A n \in Nodes : onlineEnd[n].seen => (onlineEnd[n].temp \/ onlineEnd[n].agent)

\* C3: launchNodeAgent has returned by the time 120 + 10 time units have passed
\* since it was invoked.
C3_LauncherReturnsInTime ==
    \A n \in Nodes : launcherPc[n] # "off" => elapsed[n] <= AgentTimeout + RetryInterval

\* C4: no error of the queue read ends the process.
C4_QueueReadErrorNotFatal ==
    ~(procState = "exited" /\ panicIn = "fetchQueueSize")

\* C5: after Instances.Start failed in a node's bring-online task, the task
\* sends neither launchSlaveAgent nor the toggle to online for that node, and the
\* node is still in maintenance when the task ends.
C5_FailedStartLeavesMaintenance ==
    \A n \in Nodes :
      startFailed[n] =>
        /\ lastCmd[n] \notin {"launchSlaveAgent", "toggleOnline"}
        /\ onlineEnd[n].seen => onlineEnd[n].temp

\* C6: whenever Instances.Stop is called for a node, the CI master holds
\* temporarilyOffline = true for that node at that moment.
C6_StopOnlyInMaintenance ==
    \A n \in Nodes : stopObs[n].seen => stopObs[n].temp

\* C7: a failure in the task of one node never ends the process while the task
\* of another node is still under way.
C7_TaskFailureIsolated ==
    \A n \in Nodes :
      (procState = "exited" /\ panicIn = n) =>
        \A m \in Nodes \ {n} : taskPc[m] = "none"

C9_CalculateIsCeil ==
    mainPc = "calculated" => boxesNeeded = CeilDiv(queueSize, workersPerBuildBox)

\* q = 5, w = 2 gave 3.
C9_Witness ==
    mainPc = "calculated" /\ queueSize = 5 /\ workersPerBuildBox = 2 /\ boxesNeeded = 3

\* C10: Instances.Stop is called only for a node whose power state is RUNNING
\* at that moment.
C10_StopOnlyWhenRunning ==
    \A n \in Nodes : stopObs[n].seen => stopObs[n].power = "RUNNING"

\* In one scale-down pass a running node got its stop command and the task of a
\* stopped node ended without one.
C10_Witness ==
    \E n, m \in Nodes :
      /\ n # m
      /\ mainPc = "waitDown"
      /\ stopObs[n].seen
      /\ power[m] = "TERMINATED" /\ taskPc[m] = "none" /\ ~stopObs[m].seen
      /\ lastCmd[m] = "none"

\* C11: a take-offline task that finds its node not idle is a no-op: the step
\* in which the task leaves its isNodeIdle check with the CI master holding
\* idle = false ends the task, sends no command and changes neither the
\* maintenance flag nor the power state of the node; and no command is sent for
\* a node while no task of it is under way.
C11_NotIdleIsNoOp ==
    [][\A n \in Nodes :
         /\ (taskPc[n] = "t_idle" /\ ~idle[n] /\ taskPc'[n] # "t_idle") =>
              /\ taskPc'[n] = "none"
              /\ lastCmd'[n] = lastCmd[n]
              /\ temporarilyOffline'[n] = temporarilyOffline[n]
              /\ power'[n] = power[n]
         /\ (taskPc[n] = "none" /\ taskPc'[n] = "none") =>
              /\ lastCmd'[n] \in {lastCmd[n], "none"}
              /\ temporarilyOffline'[n] = temporarilyOffline[n]
              /\ power'[n] = power[n]]_vars

\* In one scale-down pass the task of a busy running node has ended with no
\* command sent for it, its flag unset and its instance running, while the other
\* node received commands.
C11_Witness ==
    \E n, m \in Nodes :
      /\ n # m
      /\ mainPc = "waitDown"
      /\ ~idle[m] /\ power[m] = "RUNNING" /\ ~temporarilyOffline[m]
      /\ taskPc[m] = "none" /\ lastCmd[m] = "none"
      /\ lastCmd[n] = "stop"

C13_CyclesDoNotOverlap ==
    mainPc \in {"fetch", "startBuildBoxes", "stopBuildBoxes", "sleep"} =>
      /\ wg = 0
      /\ \A n \in Nodes :
           taskPc[n] = "none" /\ launcherPc[n] = "off" /\ retryPc[n] = "none"

\* The second cycle is about to read the queue after a first cycle whose task
\* left a running node in maintenance.
C13_Witness ==
    /\ cycle = 2
    /\ mainPc = "fetch"
    /\ \E n \in Nodes : power[n] = "RUNNING" /\ temporarilyOffline[n]

\* C14: each cycle runs exactly one policy, chosen by its queue sample: with a
\* sample above zero main is never in stopBuildBoxes, no take-offline task is
\* under way and no stop command has been sent in the cycle; with a sample of
\* zero main is never in startBuildBoxes, no bring-online task is under way and
\* no start, launchSlaveAgent or toggle-to-online command has been sent.
C14_OnePolicyPerCycle ==
    /\ queueSize > 0 =>
         /\ mainPc \notin {"stopBuildBoxes", "waitDown"}
         /\ \A n \in Nodes : taskPc[n] \notin StopPcs /\ lastCmd[n] # "stop"
    /\ queueSize = 0 =>
         /\ mainPc \notin {"startBuildBoxes", "scan", "waitUp"}
         /\ \A n \in Nodes :
              /\ taskPc[n] \notin StartPcs
              /\ lastCmd[n] \notin {"start", "launchSlaveAgent", "toggleOnline"}

\* The second cycle sampled an empty queue and stopped a node.
C14_Witness ==
    /\ cycle = 2
    /\ queueSize = 0
    /\ \E n \in Nodes : lastCmd[n] = "stop" /\ power[n] = "TERMINATED"

\* The positions from which a startBuildBoxAsync goroutine may arrive at a position.
C15_Before ==
    [pc \in StartPcs |->
       CASE pc = "s_checkTemp"  -> {"none"}
         [] pc = "s_toggleOff"  -> {"s_checkTemp"}
         [] pc = "s_isRunning"  -> {"s_checkTemp", "s_toggleOff"}
         [] pc = "s_start"      -> {"s_isRunning"}
         [] pc = "s_wait"       -> {"s_start"}
         [] pc = "s_settle"     -> {"s_wait"}
         [] pc = "s_agentCheck" -> {"s_isRunning", "s_start", "s_settle"}
         [] pc = "s_inLaunch"   -> {"s_agentCheck"}
         [] pc = "s_checkTemp2" -> {"s_agentCheck", "s_inLaunch"}
         [] pc = "s_toggleOn"   -> {"s_checkTemp2"}]

\* C15: the steps of a bring-online task are strictly ordered: the toggle into
\* maintenance is the first command of the task and precedes the start request;
\* the start request is followed by the status wait and the settle (or, when it
\* failed, by the agent check); launchNodeAgent and its retry goroutine run only
\* while the task is inside the launchNodeAgent call; the toggle out of
\* maintenance is the last step, sent only when the agent check or
\* launchNodeAgent has returned and nothing of the launcher is still running.
C15_BringOnlineOrder ==
    [][\A n \in Nodes :
         /\ (taskPc'[n] \in StartPcs /\ taskPc'[n] # taskPc[n]) =>
              taskPc[n] \in C15_Before[taskPc'[n]]
         /\ (launcherPc[n] # "off" \/ retryPc[n] # "none") => taskPc[n] = "s_inLaunch"
         /\ (taskPc[n] \in StartPcs /\ lastCmd'[n] # lastCmd[n]) =>
              /\ lastCmd'[n] = "toggleOffline" =>
                   taskPc[n] = "s_toggleOff" /\ lastCmd[n] = "none"
              /\ lastCmd'[n] = "start" =>
                   taskPc[n] = "s_start" /\ lastCmd[n] \in {"none", "toggleOffline"}
              /\ lastCmd'[n] = "launchSlaveAgent" => taskPc[n] = "s_inLaunch"
              /\ lastCmd'[n] = "toggleOnline" =>
                   /\ taskPc[n] = "s_toggleOn" /\ taskPc'[n] = "none"
                   /\ launcherPc[n] = "off" /\ retryPc[n] = "none"]_vars

\* In the first cycle a stopped node was started, its agent came up and the
\* task's last step took it out of maintenance.
C15_Witness ==
    \E n \in Nodes :
      /\ cycle = 1
      /\ lastCmd[n] = "toggleOnline"
      /\ taskPc[n] = "none"
      /\ power[n] = "RUNNING" /\ agentConnected[n] /\ ~temporarilyOffline[n]

\* C16: once launchNodeAgent has returned, its retry goroutine has ended: it
\* runs no further isAgentConnected query and sends no further launchSlaveAgent,
\* and none is left running or blocked.
C16_RetryEndsWithLauncher ==
    \A n \in Nodes : launcherPc[n] = "off" => retryPc[n] = "none"

\* launchNodeAgent has returned on its timer (the agent never connected), after
\* at least one launchSlaveAgent.
C16_Witness ==
    \E n \in Nodes :
      /\ taskPc[n] = "s_checkTemp2"
      /\ launcherPc[n] = "off" /\ retryPc[n] = "none"
      /\ lastCmd[n] = "launchSlaveAgent"
      /\ ~agentConnected[n]

\* C17: waitForStatus returns only once it has observed the target status: an
\* instance that is still booting has its bring-online task inside
\* waitForStatus("RUNNING"), so the task is never at the settle, the agent step
\* or beyond before RUNNING was observed; an instance that is still shutting
\* down has its take-offline task inside waitForStatus("TERMINATED"), so the
\* task has not finished.
C17_WaitObservesTarget ==
    \A n \in Nodes :
      /\ power[n] = "STAGING" => taskPc[n] = "s_wait"
      /\ power[n] = "STOPPING" => taskPc[n] = "t_wait"
      /\ taskPc[n] = "s_settle" => power[n] = "RUNNING"

\* A start was accepted, the instance booted and waitForStatus has returned.
C17_Witness ==
    \E n \in Nodes :
      /\ cycle = 1
      /\ taskPc[n] = "s_settle"
      /\ lastCmd[n] = "start"
      /\ power[n] = "RUNNING"

\* C18: with both collaborators answering, the fan-out of stopBuildBoxes puts
\* a take-offline task under way for every node of the pool; every take-offline
\* task eventually finishes; a task that found its node idle, with the instance
\* RUNNING, is followed by a stop command in that cycle and finishes with the
\* instance TERMINATED; and a running node whose task is under way is eventually
\* stopped unless it stops being idle.
C18_ScaleDownStopsIdleNodes ==
    /\ [][(mainPc = "stopBuildBoxes" /\ mainPc' = "waitDown") =>
            \A i \in 1..Len(buildBoxesPool) : taskPc'[buildBoxesPool[i]] = "t_idle"]_vars
    /\ \A n \in Nodes :
         /\ (taskPc[n] \in StopPcs) ~> (taskPc[n] = "none")
         /\ (taskPc[n] = "t_checkTemp" /\ power[n] = "RUNNING")
              ~> (stopObs[n].seen /\ taskPc[n] = "none" /\ power[n] = "TERMINATED")
         /\ (taskPc[n] = "t_idle" /\ power[n] = "RUNNING")
              ~> ((stopObs[n].seen /\ power[n] = "TERMINATED") \/ ~idle[n])

\* A scale-down pass over two idle running nodes has stopped both.
C18_Witness ==
    /\ answers = ProperAnswers
    /\ mainPc = "waitDown"
    /\ \A n \in Nodes :
         stopObs[n].seen /\ stopObs[n].idle /\ taskPc[n] = "none" /\ power[n] = "TERMINATED"

\* C19: at most one task per node is under way at any time (no task is launched
\* for a node whose task has not returned, and the WaitGroup counts exactly the
\* tasks under way), and a bring-online task and a take-offline task are never
\* under way together, for the same node or for different nodes.
C19_OneTaskPerNode ==
    /\ ~doubleLaunch
    /\ wg = Cardinality({n \in Nodes : taskPc[n] # "none"})
    /\ ~\E n, m \in Nodes : taskPc[n] \in StartPcs /\ taskPc[m] \in StopPcs

\* Two bring-online tasks of different nodes are under way together, both with
\* their launchNodeAgent running.
C19_Witness ==
    \E n, m \in Nodes :
      /\ n # m
      /\ taskPc[n] = "s_inLaunch" /\ taskPc[m] = "s_inLaunch"
      /\ retryPc[n] = "relaunch" /\ retryPc[m] = "relaunch"

\* Number of occurrences of x in a sequence.
C20_Count(x, seq) == Cardinality({i \in 1..Len(seq) : seq[i] = x})

\* C20: the shuffle only permutes the pool: buildBoxesPool always holds the
\* names it started with, each as often as at the start; and the pool changes
\* only in the step of startBuildBoxes that precedes its scan, when no task is
\* under way, so every bring-online task of a pass is launched after the shuffle.
C20_ShuffleOnlyPermutes ==
    /\ [](/\ Len(buildBoxesPool) = Len(InitialPool)
          /\ \A x \in Nodes :
               C20_Count(x, buildBoxesPool) = C20_Count(x, InitialPool))
    /\ [][buildBoxesPool' # buildBoxesPool =>
            /\ mainPc = "startBuildBoxes"
            /\ \A n \in Nodes : taskPc[n] = "none" /\ taskPc'[n] = "none"]_vars

\* In the second cycle the pool is in the other order and a bring-online task
\* is under way.
C20_Witness ==
    /\ cycle = 2
    /\ buildBoxesPool = <<"B", "A">>
    /\ \E n \in Nodes : taskPc[n] \in StartPcs

====
